---- MODULE Spec2Model ----
(***************************************************************************)
(* Model of the chatting-embedding service: src/app.py (Flask handlers     *)
(* embed, add_seeds, should_block and the module start-up),                *)
(* src/elastic_client.py (create_index, normalize_phrase,                  *)
(* add_default_seeds) and src/embedder.py (get_embedding).                 *)
(*                                                                         *)
(* Python strings are sequences of one-character strings.  Elasticsearch   *)
(* is the external store: two indices, each a map from document id to      *)
(* document.  The sentence-transformer is a black box: an embedding is     *)
(* represented by the formatted input it was computed from.               *)
(***************************************************************************)
EXTENDS Integers, Sequences, FiniteSets, TLC

\* ------------------------------------------------------------------ bounds
MaxLen == 3          \* longest string given to normalize_phrase on its own
MaxPhrases == 2      \* longest "phrases" list in a request

\* ----------------------------------------------------------------- strings
WhiteSpace == {" ", "\t"}
TerminalPunct == {".", "!"}
Chars == {"a", "A"} \cup WhiteSpace \cup TerminalPunct

StringsOver(alphabet, n) == UNION {[1..k -> alphabet] : k \in 0..n}

RECURSIVE lstrip(_)
lstrip(s) ==
    IF s = <<>> THEN <<>>
    ELSE IF Head(s) \in WhiteSpace THEN lstrip(Tail(s)) ELSE s

RECURSIVE rstrip(_)
rstrip(s) ==
    IF s = <<>> THEN <<>>
    ELSE IF s[Len(s)] \in WhiteSpace THEN rstrip(SubSeq(s, 1, Len(s) - 1)) ELSE s

\* str.strip()
strip(s) == rstrip(lstrip(s))

\* re.sub(r"\s+", " ", s)
RECURSIVE CollapseWhitespace(_)
CollapseWhitespace(s) ==
    IF s = <<>> THEN <<>>
    ELSE IF Head(s) \in WhiteSpace
         THEN <<" ">> \o CollapseWhitespace(lstrip(Tail(s)))
         ELSE <<Head(s)>> \o CollapseWhitespace(Tail(s))

\* re.sub(r"[?!.。！？…]+$", "", s)
RECURSIVE StripTrailingPunct(_)
StripTrailingPunct(s) ==
    IF s = <<>> THEN <<>>
    ELSE IF s[Len(s)] \in TerminalPunct
         THEN StripTrailingPunct(SubSeq(s, 1, Len(s) - 1))
         ELSE s

\* str.casefold()
casefold(s) == [i \in 1..Len(s) |-> IF s[i] = "A" THEN "a" ELSE s[i]]

\* The names bound at module level in elastic_client.py.  normalize_phrase
\* looks "re" up here (and then in builtins); app.py's own "import re" and
\* the "import re" local to add_default_seeds bind other namespaces.
elastic_client_globals ==
    {"os", "load_dotenv", "Elasticsearch", "ES_HOST", "ES_USER", "ES_PASSWORD",
     "TELEGRAM_CHATS_INDEX_NAME", "SEED_INDEX_NAME", "es", "mapping",
     "seed_mapping", "create_index", "normalize_phrase", "add_default_seeds"}

\* Outcome of a call returning a string: a value or a raised exception.
Returned(s) == [ok |-> TRUE, val |-> s, exc |-> "none"]
Raised(e) == [ok |-> FALSE, val |-> <<>>, exc |-> e]

\* The four text steps of normalize_phrase, in the order of the code.
NormalizeSteps(s) == casefold(StripTrailingPunct(CollapseWhitespace(strip(s))))

\* normalize_phrase: line 72 strips; the re.sub of line 73 first resolves the
\* global name "re" and raises NameError when the module does not bind it.
normalize_phrase(s) ==
    IF "re" \in elastic_client_globals
    THEN Returned(NormalizeSteps(s))
    ELSE Raised("NameError")

\* ----------------------------------------------------------- Python values
\* A JSON value where the code expects a string: a string, null, or a truthy
\* value of another type (the number 7).
Str(s) == [t |-> "str", s |-> s]
PyNone == [t |-> "none", s |-> <<>>]
Other == [t |-> "other", s |-> <<>>]

IsStr(v) == v.t = "str"
\* bool(v)
Truthy(v) == v.t = "other" \/ (v.t = "str" /\ v.s # <<>>)
\* isinstance(v, str) and v.strip()
NonBlankStr(v) == IsStr(v) /\ strip(v.s) # <<>>
\* f"{v}"
Format(v) ==
    IF v.t = "str" THEN v.s
    ELSE IF v.t = "none" THEN <<"N", "o", "n", "e">> ELSE <<"7">>

\* An optional value of a response body: null or a value.
Null == <<>>
Some(x) == <<x>>

\* ---------------------------------------------------------------- embedder
DefaultKind == "query"

\* model.encode is a black box; the vector is represented by the prefix and
\* text of the formatted input "<prefix>: <text>" it is computed from.
get_embedding(text, kind) ==
    LET prefix == IF kind # "passage" THEN "query" ELSE "passage"
    IN  [prefix |-> prefix, text |-> Format(text)]

\* ----------------------------------------------------------- Elasticsearch
\* hashlib.sha1(...).hexdigest(), taken to be collision-free: the digest is
\* represented by the string that was hashed.
sha1_hexdigest(s) == [sha1 |-> s]

\* f"{label}|{normalized}" hashed
SeedId(label, normalized) == sha1_hexdigest(Format(label) \o <<"|">> \o normalized)

\* es.index(index=..., id=k, document=v) on the documents f of an index
Put(f, k, v) == [x \in DOMAIN f \cup {k} |-> IF x = k THEN v ELSE f[x]]

EmptyIndex == [x \in {} |-> x]

VARIABLES
    proc,             \* "down" or "up": whether the Flask process serves requests
    chatIndexExists,  \* the telegram-chats index exists
    seedIndexExists,  \* the intent-seeds index exists
    seeds,            \* documents of the intent-seeds index, by id
    messages,         \* documents of the telegram-chats index, by id
    lastReq,          \* the operation in progress and the inputs it read
    lastResp,         \* its outcome, until the caller has taken it
    prevMatch,        \* the previous answer of /seed-matches that had a hit
    nPc, nIn, nRes1, nRes2   \* normalize_phrase applied on its own

pvars == <<proc, chatIndexExists, seedIndexExists, seeds, messages, lastReq, lastResp,
           prevMatch>>
nvars == <<nPc, nIn, nRes1, nRes2>>
vars == <<proc, chatIndexExists, seedIndexExists, seeds, messages, lastReq, lastResp,
          prevMatch, nPc, nIn, nRes1, nRes2>>

\* ------------------------------------------------------------ start-up
TELEGRAM_CHATS_INDEX_NAME == "telegram-chats"
SEED_INDEX_NAME == "intent-seeds"

MaxEsCalls == 4      \* the failing Elasticsearch call of an operation: none, or
                     \* its 1st .. MaxEsCalls-th call

\* An entry of a "phrases" list: a string or a value of another type.
PhraseStrings == {<<" ">>, <<"a">>, <<"a", ".">>}
PhraseEntries == {Str(s) : s \in PhraseStrings} \cup {Other}
PhraseLists == UNION {[1..k -> PhraseEntries] : k \in 0..MaxPhrases}

\* What open()/json.load() of default_seeds.json gives: the file is part of
\* the deployment, not of the code.
DefaultSeedFiles ==
    {[kind |-> "FileNotFoundError", seeds |-> <<>>],
     [kind |-> "JSONDecodeError", seeds |-> <<>>],
     [kind |-> "ok", seeds |-> <<>>]}
    \cup {[kind |-> "ok", seeds |-> <<[label |-> Str(<<"a">>), phrases |-> ps]>>] :
             ps \in PhraseLists}

\* The (label, phrase) pairs of the two nested loops, in iteration order.
RECURSIVE DefaultPairs(_)
DefaultPairs(seed_list) ==
    IF seed_list = <<>> THEN <<>>
    ELSE LET seed_data == Head(seed_list)
         IN  [i \in 1..Len(seed_data.phrases) |->
                 [label |-> seed_data.label, phrase |-> seed_data.phrases[i]]]
             \o DefaultPairs(Tail(seed_list))

\* The body of the loops of add_default_seeds.  st.calls counts the
\* Elasticsearch calls of the start-up so far, st.embedCalls the embedding
\* calls; st.embedded lists the embeddings computed.
RECURSIVE default_seeds_loop(_, _, _)
default_seeds_loop(st, pairs, env) ==
    IF pairs = <<>> THEN st
    ELSE
    LET label == Head(pairs).label
        phrase == Head(pairs).phrase
        rest == Tail(pairs)
    IN
    IF ~NonBlankStr(phrase) THEN default_seeds_loop(st, rest, env)
    ELSE
    LET normalized == normalize_phrase(phrase.s) IN
    IF ~normalized.ok THEN [st EXCEPT !.exc = normalized.exc]
    ELSE
    LET es_id == SeedId(label, normalized.val)
        cExists == st.calls + 1
    IN
    IF cExists = env.esFailAt
    THEN [st EXCEPT !.calls = cExists, !.exc = "ConnectionError"]
    ELSE IF es_id \in DOMAIN st.seeds
    THEN default_seeds_loop([st EXCEPT !.calls = cExists], rest, env)
    ELSE
    LET nEmbed == st.embedCalls + 1 IN
    IF nEmbed = env.embedFailAt
    THEN [st EXCEPT !.calls = cExists, !.embedCalls = nEmbed, !.exc = "EmbeddingError"]
    ELSE
    LET vec == get_embedding(phrase, DefaultKind)
        doc == [label |-> label, phrase |-> phrase.s,
                phrase_normalized |-> normalized.val,
                created_at |-> "now", embedding |-> vec]
        cIndex == cExists + 1
        called == [st EXCEPT !.calls = cIndex, !.embedCalls = nEmbed,
                             !.embedded = Append(@, vec)]
    IN
    IF cIndex = env.esFailAt
    THEN \* except Exception: print(...) -- the loop goes on
         default_seeds_loop([called EXCEPT !.swallowed = @ + 1], rest, env)
    ELSE default_seeds_loop([called EXCEPT !.seeds = Put(@, es_id, doc),
                                           !.total_added = @ + 1], rest, env)

add_default_seeds(st, file, env) ==
    LET entered == [st EXCEPT !.bootstrapRan = TRUE] IN
    IF file.kind # "ok" THEN entered
    ELSE default_seeds_loop(entered, DefaultPairs(file.seeds), env)

\* A variant that populates the seed index on every start-up, whether or not
\* the index was just created.
create_index_always(st, index_name, file, env) ==
    LET cExists == st.calls + 1 IN
    IF cExists = env.esFailAt
    THEN [st EXCEPT !.calls = cExists, !.exc = "ConnectionError"]
    ELSE
    LET exists == IF index_name = SEED_INDEX_NAME
                  THEN st.seedIndexExists ELSE st.chatIndexExists
        cCreate == IF exists THEN cExists ELSE cExists + 1
    IN
    IF ~exists /\ cCreate = env.esFailAt
    THEN [st EXCEPT !.calls = cCreate, !.exc = "ConnectionError"]
    ELSE
    LET created == [st EXCEPT !.calls = cCreate,
                       !.seedIndexExists = @ \/ index_name = SEED_INDEX_NAME,
                       !.chatIndexExists = @ \/ index_name = TELEGRAM_CHATS_INDEX_NAME]
    IN
    IF index_name = SEED_INDEX_NAME THEN add_default_seeds(created, file, env)
    ELSE created

create_index(st, index_name, file, env) ==
    LET cExists == st.calls + 1 IN
    IF cExists = env.esFailAt
    THEN [st EXCEPT !.calls = cExists, !.exc = "ConnectionError"]
    ELSE
    LET exists == IF index_name = SEED_INDEX_NAME
                  THEN st.seedIndexExists ELSE st.chatIndexExists
    IN
    IF exists THEN [st EXCEPT !.calls = cExists]
    ELSE
    LET cCreate == cExists + 1 IN
    IF cCreate = env.esFailAt
    THEN [st EXCEPT !.calls = cCreate, !.exc = "ConnectionError"]
    ELSE
    LET created == [st EXCEPT !.calls = cCreate,
                       !.seedIndexExists = @ \/ index_name = SEED_INDEX_NAME,
                       !.chatIndexExists = @ \/ index_name = TELEGRAM_CHATS_INDEX_NAME]
    IN
    IF index_name = SEED_INDEX_NAME THEN add_default_seeds(created, file, env)
    ELSE created

\* Documents the deployment may have indexed before the first start-up:
\* Elasticsearch outlives the process.
DeployedLabels == {<<"a">>, <<"b">>}
DeployedSeed(l) ==
    [label |-> Str(l), phrase |-> <<"a">>, phrase_normalized |-> <<"a">>,
     created_at |-> "earlier", embedding |-> get_embedding(Str(<<"a">>), "passage")]
DeployedIds == {SeedId(Str(l), <<"a">>) : l \in DeployedLabels}
DeployedDoc(id) == DeployedSeed(CHOOSE l \in DeployedLabels : SeedId(Str(l), <<"a">>) = id)

NoOp == [op |-> "none"]

ProgramInit ==
    /\ proc = "down"
    /\ chatIndexExists \in BOOLEAN
    /\ seedIndexExists \in BOOLEAN
    /\ \E ids \in SUBSET DeployedIds :
          /\ ids # {} => seedIndexExists
          /\ seeds = [id \in ids |-> DeployedDoc(id)]
    /\ messages = EmptyIndex
    /\ lastReq = NoOp
    /\ lastResp = NoOp
    /\ prevMatch = NoOp

\* Import of app.py: the two create_index calls of lines 32-33.  An
\* exception ends the process before it serves a request.
Startup ==
    /\ proc = "down"
    /\ lastReq = NoOp
    /\ \E file \in DefaultSeedFiles, esFailAt \in 0..MaxEsCalls, embedFailAt \in 0..1 :
         LET env == [esFailAt |-> esFailAt, embedFailAt |-> embedFailAt]
             st0 == [chatIndexExists |-> chatIndexExists,
                     seedIndexExists |-> seedIndexExists,
                     seeds |-> seeds, calls |-> 0, embedCalls |-> 0,
                     embedded |-> <<>>, exc |-> "none", bootstrapRan |-> FALSE,
                     total_added |-> 0, swallowed |-> 0]
             st1 == create_index(st0, TELEGRAM_CHATS_INDEX_NAME, file, env)
             st2 == IF st1.exc # "none" THEN st1
                    ELSE create_index(st1, SEED_INDEX_NAME, file, env)
         IN  /\ proc' = IF st2.exc = "none" THEN "up" ELSE "down"
             /\ chatIndexExists' = st2.chatIndexExists
             /\ seedIndexExists' = st2.seedIndexExists
             /\ seeds' = st2.seeds
             /\ lastReq' = [op |-> "startup", file |-> file,
                            seedIndexExisted |-> seedIndexExists]
             /\ lastResp' = [op |-> "startup", exc |-> st2.exc,
                             bootstrapRan |-> st2.bootstrapRan,
                             total_added |-> st2.total_added,
                             swallowed |-> st2.swallowed,
                             embedded |-> st2.embedded]
    /\ UNCHANGED <<messages, prevMatch, nvars>>

\* The process stops (and may be started again).
Shutdown ==
    /\ proc = "up"
    /\ lastReq = NoOp
    /\ proc' = "down"
    /\ UNCHANGED <<chatIndexExists, seedIndexExists, seeds, messages, lastReq,
                   lastResp, prevMatch, nvars>>

\* --------------------------------------------------------- POST /embed
MessageTexts == {PyNone, Str(<<>>), Str(<<"a">>)}
MessageIds == {Null, Some(1)}
ChatIds == {Null, Some(1)}
Timestamps == {"absent", "epoch", "iso string", "malformed string"}
Author == [nickname |-> "nick", username |-> "user", is_bot |-> FALSE]

\* The timestamp pre-processing of embed: a number becomes ISO text, a
\* string that does not parse and a missing value become the current time.
NormalizeTimestamp(timestamp) ==
    CASE timestamp = "absent" -> "now"
      [] timestamp = "epoch" -> "iso of epoch"
      [] timestamp = "iso string" -> "iso string"
      [] timestamp = "malformed string" -> "now"
      [] OTHER -> timestamp

\* f"{chat_id}_{message_id}"
MessageEsId(chat_id, message_id) == <<chat_id[1], "_", message_id[1]>>

Embed ==
    /\ proc = "up"
    /\ lastReq = NoOp
    /\ \E text \in MessageTexts, chat_id \in ChatIds, message_id \in MessageIds,
          timestamp \in Timestamps, embedFails \in BOOLEAN, indexFails \in BOOLEAN :
         LET req == [op |-> "embed", text |-> text, chat_id |-> chat_id,
                     message_id |-> message_id, timestamp |-> timestamp]
             reject(error) == /\ lastResp' = [op |-> "embed", status |-> 400,
                                              error |-> error, exc |-> "none"]
                              /\ UNCHANGED <<messages, chatIndexExists>>
             fail(exc) == /\ lastResp' = [op |-> "embed", status |-> 500,
                                          error |-> "unhandled", exc |-> exc]
                          /\ UNCHANGED <<messages, chatIndexExists>>
         IN  /\ lastReq' = req
             /\ IF ~Truthy(text) THEN reject("No text provided")
                ELSE IF chat_id = Null \/ message_id = Null
                THEN reject("chat_id and message_id are required")
                ELSE IF embedFails THEN fail("EmbeddingError")
                ELSE
                LET vector == get_embedding(text, DefaultKind)
                    es_id == MessageEsId(chat_id, message_id)
                    doc == [id |-> es_id, chat_id |-> chat_id[1],
                            message_id |-> message_id[1],
                            nickname |-> Author.nickname,
                            username |-> Author.username,
                            is_bot |-> Author.is_bot, text |-> text.s,
                            timestamp |-> NormalizeTimestamp(timestamp),
                            embedding |-> vector]
                IN  IF indexFails THEN fail("ConnectionError")
                    ELSE /\ messages' = Put(messages, es_id, doc)
                         /\ chatIndexExists' = TRUE
                         /\ lastResp' = [op |-> "embed", status |-> 201,
                                         error |-> "none", exc |-> "none"]
    /\ UNCHANGED <<proc, seedIndexExists, seeds, prevMatch, nvars>>

\* --------------------------------------------------------- POST /seeds
SeedLabels == {PyNone, Str(<<>>), Str(<<" ">>), Str(<<"a">>), Str(<<"b">>), Other}

\* The "phrases" field: absent/null, one string, a list, or another type.
PhrasesInputs ==
    {[k |-> "none", s |-> <<>>, items |-> <<>>],
     [k |-> "other", s |-> <<>>, items |-> <<>>]}
    \cup {[k |-> "str", s |-> s, items |-> <<>>] : s \in PhraseStrings}
    \cup {[k |-> "list", s |-> <<>>, items |-> ps] : ps \in PhraseLists}

\* The for loop of add_seeds.  acc.seeds is the seed index, acc.results the
\* list built so far; the loop ends at the first exception.
RECURSIVE add_seeds_loop(_, _, _, _)
add_seeds_loop(acc, label, phrases, env) ==
    IF phrases = <<>> THEN acc
    ELSE
    LET p == Head(phrases)
        rest == Tail(phrases)
    IN
    IF ~NonBlankStr(p) THEN add_seeds_loop(acc, label, rest, env)
    ELSE
    LET normalized == normalize_phrase(p.s) IN
    IF ~normalized.ok THEN [acc EXCEPT !.exc = normalized.exc]
    ELSE
    LET es_id == SeedId(label, normalized.val)
        nEmbed == acc.embedCalls + 1
    IN
    IF nEmbed = env.embedFailAt
    THEN [acc EXCEPT !.embedCalls = nEmbed, !.exc = "EmbeddingError"]
    ELSE
    LET vec == get_embedding(p, DefaultKind)
        doc == [label |-> label, phrase |-> p.s,
                phrase_normalized |-> normalized.val,
                created_at |-> "now", embedding |-> vec]
        nIndex == acc.indexCalls + 1
        called == [acc EXCEPT !.embedCalls = nEmbed, !.indexCalls = nIndex,
                              !.embedded = Append(@, vec)]
    IN
    IF nIndex = env.indexFailAt
    THEN [called EXCEPT !.exc = "ConnectionError"]
    ELSE add_seeds_loop(
             [called EXCEPT
                 !.seeds = Put(@, es_id, doc),
                 !.results = Append(@,
                     [id |-> es_id,
                      result |-> IF es_id \in DOMAIN acc.seeds
                                 THEN "updated" ELSE "created",
                      phrase |-> p.s, label |-> label])],
             label, rest, env)

AddSeeds ==
    /\ proc = "up"
    /\ lastReq = NoOp
    /\ \E label \in SeedLabels, phrases \in PhrasesInputs,
          embedFailAt \in 0..MaxPhrases, indexFailAt \in 0..MaxPhrases :
         LET req == [op |-> "add_seeds", label |-> label, phrases |-> phrases]
             reject(error) == /\ lastResp' = [op |-> "add_seeds", status |-> 400,
                                              error |-> error, exc |-> "none",
                                              count |-> 0, items |-> <<>>,
                                              embedded |-> <<>>]
                              /\ UNCHANGED <<seeds, seedIndexExists>>
         IN  /\ lastReq' = req
             /\ IF ~Truthy(label) THEN reject("label is required")
                ELSE IF phrases.k = "none" THEN reject("phrases is required")
                ELSE IF phrases.k = "other"
                THEN reject("phrases must be a string or an array of strings")
                ELSE
                LET list == IF phrases.k = "str" THEN <<Str(phrases.s)>>
                            ELSE phrases.items
                    acc0 == [seeds |-> seeds, results |-> <<>>, exc |-> "none",
                             embedCalls |-> 0, indexCalls |-> 0, embedded |-> <<>>]
                    env == [embedFailAt |-> embedFailAt, indexFailAt |-> indexFailAt]
                    acc == add_seeds_loop(acc0, label, list, env)
                IN  /\ seeds' = acc.seeds
                    /\ seedIndexExists' = (seedIndexExists \/ acc.results # <<>>)
                    /\ lastResp' =
                         IF acc.exc # "none"
                         THEN [op |-> "add_seeds", status |-> 500,
                               error |-> "unhandled", exc |-> acc.exc,
                               count |-> 0, items |-> <<>>,
                               embedded |-> acc.embedded]
                         ELSE [op |-> "add_seeds", status |-> 201,
                               error |-> "none", exc |-> "none",
                               count |-> Len(acc.results), items |-> acc.results,
                               embedded |-> acc.embedded]
    /\ UNCHANGED <<proc, chatIndexExists, messages, prevMatch, nvars>>

\* --------------------------------------------- normalize_phrase on its own
NoResult == Raised("not called")

NormalizeIdle ==
    /\ nPc = "idle"
    /\ nIn = <<>>
    /\ nRes1 = NoResult
    /\ nRes2 = NoResult

\* The service is not running while normalize_phrase is exercised alone.
ProgramIdle ==
    /\ proc = "down"
    /\ chatIndexExists = FALSE
    /\ seedIndexExists = FALSE
    /\ seeds = EmptyIndex
    /\ messages = EmptyIndex
    /\ lastReq = NoOp
    /\ lastResp = NoOp
    /\ prevMatch = NoOp

InitNormalize ==
    /\ ProgramIdle
    /\ nPc = "start"
    /\ nIn \in StringsOver(Chars, MaxLen)
    /\ nRes1 = NoResult
    /\ nRes2 = NoResult

\* t = normalize_phrase(s)
NormalizeOnce ==
    /\ nPc = "start"
    /\ nRes1' = normalize_phrase(nIn)
    /\ nPc' = "once"
    /\ UNCHANGED <<nIn, nRes2, pvars>>

\* normalize_phrase(t): an exception of the inner call leaves the outer one
\* uncalled.
NormalizeTwice ==
    /\ nPc = "once"
    /\ nRes2' = IF nRes1.ok THEN normalize_phrase(nRes1.val) ELSE nRes1
    /\ nPc' = "twice"
    /\ UNCHANGED <<nIn, nRes1, pvars>>

NextNormalize == NormalizeOnce \/ NormalizeTwice

SpecNormalize == InitNormalize /\ [][NextNormalize]_vars

\* C7: for every string s, normalize(normalize(s)) equals normalize(s):
\* both calls return a string and the strings are equal.
C7_NormalizeIdempotent ==
    nPc = "twice" => (nRes1.ok /\ nRes2.ok /\ nRes2.val = nRes1.val)

\* -------------------------------------------------- POST /seed-matches
\* Similarities and thresholds are in tenths: One is 1.0, DefaultThreshold 0.9.
One == 10
DefaultThreshold == 9

MaxLabels == 2       \* longest "labels" list in a request

Scores == {DefaultThreshold, DefaultThreshold + 1}

QueryTexts == {PyNone, Other, Str(<<" ">>), Str(<<"a">>)}
ThresholdInputs ==
    {[k |-> "absent", v |-> 0], [k |-> "unparsable", v |-> 0],
     [k |-> "number", v |-> DefaultThreshold + 1]}
FilterLabels == {PyNone, Str(<<" ">>), Str(<<"a">>)}
LabelEntries == {Other, Str(<<" ">>), Str(<<"a">>), Str(<<"b">>)}
LabelsInputs ==
    {[k |-> "none", items |-> <<>>], [k |-> "other", items |-> <<>>]}
    \cup {[k |-> "list", items |-> ls] :
             ls \in UNION {[1..n -> LabelEntries] : n \in 0..MaxLabels}}

\* float(data.get("threshold", 0.9)), 0.9 on TypeError/ValueError
ParseThreshold(threshold) ==
    IF threshold.k = "number" THEN threshold.v ELSE DefaultThreshold

NoFilter == [kind |-> "none", values |-> {}]

\* A variant that never passes a filter to the search.
BuildFilters_unfiltered(label, labels) == NoFilter

\* The optional label filter of should_block (lines 177-183).
BuildFilters(label, labels) ==
    IF NonBlankStr(label) THEN [kind |-> "term", values |-> {label}]
    ELSE IF labels.k = "list" /\ labels.items # <<>>
    THEN LET valid == {labels.items[i] : i \in
                          {j \in 1..Len(labels.items) : NonBlankStr(labels.items[j])}}
         IN  IF valid # {} THEN [kind |-> "terms", values |-> valid] ELSE NoFilter
    ELSE NoFilter

\* Elasticsearch's side of knn_search with k = 1: the documents that pass the
\* filter and, among them, those of the highest score.  scores gives the
\* cosine score of the query vector against each stored vector.
Eligible(docs, filters) ==
    {id \in DOMAIN docs : filters.kind = "none" \/ docs[id].label \in filters.values}

KnnTop(docs, filters, scores) ==
    {id \in Eligible(docs, filters) :
        \A other \in Eligible(docs, filters) : scores[other] <= scores[id]}

Hit(docs, id, scores) ==
    [id |-> id, score |-> Some(scores[id]),
     source |-> [label |-> docs[id].label, phrase |-> docs[id].phrase]]

\* A variant that fails closed.
format_no_hit_closed(threshold) ==
    [op |-> "seed-matches", status |-> 200, exc |-> "none", block |-> TRUE,
     label |-> Null, similarity |-> Null, distance |-> Null,
     threshold |-> threshold, reason |-> "no_seed_match"]

format_no_hit(threshold) ==
    [op |-> "seed-matches", status |-> 200, exc |-> "none", block |-> FALSE,
     label |-> Null, similarity |-> Null, distance |-> Null,
     threshold |-> threshold, reason |-> "no_seed_match"]

\* A variant that compares with > instead of >=.
format_with_hit_strict(top, threshold) ==
    LET sim_score_local == top.score
    IN  [op |-> "seed-matches", status |-> 200, exc |-> "none",
         block |-> (sim_score_local # Null /\ sim_score_local[1] > threshold),
         label |-> Some(top.source.label),
         similarity |-> sim_score_local,
         distance |-> IF sim_score_local = Null THEN Null
                      ELSE Some(One - sim_score_local[1]),
         threshold |-> threshold, reason |-> "absent"]

format_with_hit(top, threshold) ==
    LET top_label_local == top.source.label
        raw_score_local == top.score
        sim_score_local == raw_score_local
        dist_local == IF sim_score_local = Null THEN Null
                      ELSE Some(One - sim_score_local[1])
        block_local == sim_score_local # Null /\ sim_score_local[1] >= threshold
    IN  [op |-> "seed-matches", status |-> 200, exc |-> "none",
         block |-> block_local, label |-> Some(top_label_local),
         similarity |-> sim_score_local, distance |-> dist_local,
         threshold |-> threshold, reason |-> "absent"]

\* A variant of _search_top_hit without the try/except: the exception of
\* es.knn_search reaches the handler.
search_top_hit_raising(filters, scores, knnFails) ==
    IF knnFails \/ ~seedIndexExists
    THEN {[top |-> Null, calls |-> 1, exc |-> "ConnectionError"]}
    ELSE IF KnnTop(seeds, filters, scores) = {}
    THEN {[top |-> Null, calls |-> 1, exc |-> "none"]}
    ELSE {[top |-> Some(Hit(seeds, id, scores)), calls |-> 1, exc |-> "none"] :
             id \in KnnTop(seeds, filters, scores)}

\* The outcomes of _search_top_hit: the value returned (Null or a hit), the
\* number of es.knn_search calls made and the exception that leaves the
\* function.  Any exception of es.knn_search (a failing call, a missing
\* index) is caught and gives Null.
search_top_hit(filters, scores, knnFails) ==
    IF knnFails \/ ~seedIndexExists
    THEN {[top |-> Null, calls |-> 1, exc |-> "none"]}
    ELSE IF KnnTop(seeds, filters, scores) = {}
    THEN {[top |-> Null, calls |-> 1, exc |-> "none"]}
    ELSE {[top |-> Some(Hit(seeds, id, scores)), calls |-> 1, exc |-> "none"] :
             id \in KnnTop(seeds, filters, scores)}

ShouldBlock ==
    /\ proc = "up"
    /\ lastReq = NoOp
    /\ \E text \in QueryTexts :
         IF ~Truthy(text) \/ ~IsStr(text) \/ strip(text.s) = <<>>
         THEN /\ lastReq' = [op |-> "seed-matches", text |-> text]
              /\ lastResp' = [op |-> "seed-matches", status |-> 400,
                              exc |-> "none", error |-> "text is required"]
         ELSE
         \E th \in ThresholdInputs, label \in FilterLabels, labels \in LabelsInputs,
            embedFails \in BOOLEAN :
            LET threshold == ParseThreshold(th)
                filters == BuildFilters(label, labels)
                req == [op |-> "seed-matches", text |-> text, threshold |-> th,
                        label |-> label, labels |-> labels]
            IN
            IF embedFails
            THEN /\ lastReq' = req @@ [embedded |-> <<>>, knnCalls |-> 0,
                                       knnFailed |-> FALSE, scores |-> EmptyIndex]
                 /\ lastResp' = [op |-> "seed-matches", status |-> 500,
                                 exc |-> "EmbeddingError", error |-> "unhandled"]
            ELSE
            LET vector == get_embedding(text, DefaultKind) IN
            \E knnFails \in BOOLEAN, scores \in [DOMAIN seeds -> Scores] :
            \E found \in search_top_hit(filters, scores, knnFails) :
               LET top_hit == found.top IN
               /\ lastReq' = req @@ [embedded |-> <<vector>>,
                                     knnCalls |-> found.calls,
                                     knnFailed |-> (knnFails \/ ~seedIndexExists),
                                     scores |-> scores]
               /\ lastResp' = IF found.exc # "none"
                              THEN [op |-> "seed-matches", status |-> 500,
                                    exc |-> found.exc, error |-> "unhandled"]
                              ELSE IF top_hit = Null THEN format_no_hit(threshold)
                              ELSE format_with_hit(top_hit[1], threshold)
    /\ UNCHANGED <<proc, chatIndexExists, seedIndexExists, seeds, messages,
                   prevMatch, nvars>>

\* The caller takes the outcome; the next operation can begin.  prevMatch
\* keeps the last /seed-matches answer that had a hit.
IsHit(resp) == resp.op = "seed-matches" /\ resp.status = 200 /\ resp.similarity # Null

Deliver ==
    /\ lastReq # NoOp
    /\ prevMatch' = IF IsHit(lastResp)
                    THEN [op |-> "seed-matches",
                          similarity |-> lastResp.similarity[1],
                          threshold |-> lastResp.threshold,
                          block |-> lastResp.block]
                    ELSE prevMatch
    /\ lastReq' = NoOp
    /\ lastResp' = NoOp
    /\ UNCHANGED <<proc, chatIndexExists, seedIndexExists, seeds, messages, nvars>>

\* ------------------------------------------------------------ the program
Init == ProgramInit /\ NormalizeIdle

Next == Startup \/ Shutdown \/ Embed \/ AddSeeds \/ ShouldBlock \/ Deliver

Spec == Init /\ [][Next]_vars

\* ================================================================ claims
\* What a request asks for, stated from the claims.
PhraseList(req) ==
    IF req.phrases.k = "str" THEN <<Str(req.phrases.s)>> ELSE req.phrases.items

ValidIndices(list) ==
    {i \in 1..Len(list) : list[i].t = "str" /\ strip(list[i].s) # <<>>}

\* A seed-add request with a non-blank label and a string or a list of phrases.
WellFormedSeedRequest ==
    /\ lastReq.op = "add_seeds"
    /\ lastReq.label.t = "str" /\ strip(lastReq.label.s) # <<>>
    /\ lastReq.phrases.k \in {"str", "list"}

StoredFor(label, phrase) ==
    {id \in DOMAIN seeds : /\ seeds[id].label = label
                           /\ seeds[id].phrase_normalized = NormalizeSteps(phrase)}

RequestedThreshold ==
    CASE lastReq.threshold.k = "number" -> lastReq.threshold.v
      [] OTHER -> DefaultThreshold

\* The label filter a /seed-matches request asks for: a single non-blank
\* label, else the non-blank strings of a list of labels, else none.
RequestedFilter ==
    LET usable(v) == v.t = "str" /\ strip(v.s) # <<>>
        items == lastReq.labels.items
        listed == {items[i] : i \in {j \in 1..Len(items) : usable(items[j])}}
    IN  IF usable(lastReq.label) THEN [on |-> TRUE, labels |-> {lastReq.label}]
        ELSE IF lastReq.labels.k = "list" /\ listed # {}
        THEN [on |-> TRUE, labels |-> listed]
        ELSE [on |-> FALSE, labels |-> {}]

EligibleSeeds ==
    {id \in DOMAIN seeds : ~RequestedFilter.on \/ seeds[id].label \in RequestedFilter.labels}

\* A /seed-matches request that passed validation and whose embedding succeeded.
Classified ==
    /\ lastResp.op = "seed-matches"
    /\ lastResp.status # 400
    /\ lastResp.exc # "EmbeddingError"

NoMatchOutcome ==
    /\ lastResp.status = 200
    /\ lastResp.block = FALSE
    /\ lastResp.label = Null
    /\ lastResp.similarity = Null
    /\ lastResp.distance = Null
    /\ lastResp.threshold = RequestedThreshold
    /\ lastResp.reason = "no_seed_match"

\* C1: after a seed-add request the seed store holds exactly one document for
\* every (label, normalized phrase) pair the request added.
C1_OneDocumentPerAddedPair ==
    WellFormedSeedRequest =>
        \A i \in ValidIndices(PhraseList(lastReq)) :
            Cardinality(StoredFor(lastReq.label, PhraseList(lastReq)[i].s)) = 1

\* C2: a hit with similarity s answers block = (s >= threshold), equality
\* included, with the label of a best eligible seed; and of two answers with
\* the same similarity, the one with the higher threshold blocks only if the
\* one with the lower threshold does.
C2_BlockIffAtLeastThreshold ==
    IsHit(lastResp) =>
        /\ lastResp.block = (lastResp.similarity[1] >= RequestedThreshold)
        /\ lastResp.threshold = RequestedThreshold
        /\ \E id \in DOMAIN seeds :
              /\ lastResp.label = Some(seeds[id].label)
              /\ lastResp.similarity = Some(lastReq.scores[id])
        /\ (/\ prevMatch # NoOp
            /\ prevMatch.similarity = lastResp.similarity[1]
            /\ prevMatch.threshold <= lastResp.threshold)
           => (lastResp.block => prevMatch.block)

\* C2's case: the earlier answer blocks at similarity = threshold, the later
\* one, with the same similarity and a higher threshold, does not.
C2_Witness ==
    /\ IsHit(lastResp)
    /\ prevMatch # NoOp
    /\ prevMatch.similarity = prevMatch.threshold
    /\ prevMatch.block
    /\ lastResp.similarity[1] = prevMatch.similarity
    /\ lastResp.threshold > prevMatch.threshold
    /\ ~lastResp.block

\* C3: a classify request with non-blank text whose embedding succeeds, made
\* when the store is empty or no seed passes the label filter, answers the
\* no-match outcome (block false, nulls, the threshold used, reason
\* "no_seed_match"), not an error.
C3_FailOpenOnNoMatch ==
    (Classified /\ EligibleSeeds = {}) => NoMatchOutcome

\* C3's case: seeds are stored, the knn search worked, the filter excludes
\* them all.
C3_Witness ==
    /\ Classified
    /\ seeds # EmptyIndex
    /\ ~lastReq.knnFailed
    /\ RequestedFilter.on
    /\ EligibleSeeds = {}
    /\ NoMatchOutcome

\* C4: a failing nearest-neighbour search gives the no-match outcome, not an
\* error, after a single attempt.
C4_SearchFailureIsNoMatch ==
    (Classified /\ lastReq.knnFailed) => (NoMatchOutcome /\ lastReq.knnCalls = 1)

\* C4's case: the search failed although an eligible seed is stored.
C4_Witness ==
    /\ Classified
    /\ lastReq.knnFailed
    /\ EligibleSeeds # {}
    /\ NoMatchOutcome

\* C5: with a label filter the hit is a best seed among those whose label is
\* the single label or in the set; without a usable filter it is a best seed
\* among all.
C5_FilterRestrictsTopMatch ==
    /\ IsHit(lastResp) =>
          \E id \in EligibleSeeds :
             /\ lastResp.label = Some(seeds[id].label)
             /\ lastResp.similarity = Some(lastReq.scores[id])
             /\ \A other \in EligibleSeeds : lastReq.scores[other] <= lastReq.scores[id]
    /\ (Classified /\ ~lastReq.knnFailed /\ EligibleSeeds # {}) => IsHit(lastResp)

\* C5's case: a single-label filter, and a seed of another label that is
\* closer to the input than the hit.
C5_Witness ==
    /\ IsHit(lastResp)
    /\ RequestedFilter.on
    /\ \E id \in DOMAIN seeds \ EligibleSeeds :
          lastReq.scores[id] > lastResp.similarity[1]

\* C5's other case: blank or non-string filter inputs, every seed eligible.
C5_WitnessNoFilter ==
    /\ IsHit(lastResp)
    /\ lastReq.label # PyNone
    /\ lastReq.labels.k = "list" /\ lastReq.labels.items # <<>>
    /\ ~RequestedFilter.on
    /\ Cardinality(EligibleSeeds) = 2

\* C6: a seed-add request answers 201 with one item per entry that is a
\* string and not blank, count = the number of such entries, each stored.
C6_BatchPartialSuccess ==
    WellFormedSeedRequest =>
        LET list == PhraseList(lastReq) IN
        /\ lastResp.status = 201
        /\ lastResp.count = Cardinality(ValidIndices(list))
        /\ Len(lastResp.items) = lastResp.count
        /\ \A i \in ValidIndices(list) : StoredFor(lastReq.label, list[i].s) # {}

\* C8: the seed-add operation and the bootstrap embed every phrase they
\* handle in the passage role, classify embeds its input in the query role,
\* and no stored seed vector has the query framing.
EmbeddedAs(role, phrase) ==
    \E k \in 1..Len(lastResp.embedded) :
        lastResp.embedded[k] = [prefix |-> role, text |-> phrase]

C8_RolesAssignedByPath ==
    /\ (WellFormedSeedRequest
        /\ lastResp.exc \notin {"EmbeddingError", "ConnectionError"})
       => \A i \in ValidIndices(PhraseList(lastReq)) :
             EmbeddedAs("passage", PhraseList(lastReq)[i].s)
    /\ (lastResp.op = "startup" /\ lastResp.bootstrapRan
        /\ lastResp.exc \notin {"EmbeddingError", "ConnectionError"})
       => LET pairs == DefaultPairs(lastReq.file.seeds) IN
          \A i \in 1..Len(pairs) :
             (pairs[i].phrase.t = "str" /\ strip(pairs[i].phrase.s) # <<>>)
             => EmbeddedAs("passage", pairs[i].phrase.s)
    /\ (Classified /\ lastResp.status = 200)
       => lastReq.embedded = <<[prefix |-> "query", text |-> lastReq.text.s]>>
    /\ \A id \in DOMAIN seeds : seeds[id].embedding.prefix # "query"

\* C9: the bootstrap runs only in a start-up that found no seed index; a
\* start-up that finds the index leaves the stored seeds as they are; and a
\* bootstrap whose default identities are all stored writes nothing.
DefaultIds(file) ==
    LET pairs == DefaultPairs(file.seeds)
    IN  {SeedId(pairs[i].label, NormalizeSteps(pairs[i].phrase.s)) :
            i \in {j \in 1..Len(pairs) : /\ pairs[j].phrase.t = "str"
                                         /\ strip(pairs[j].phrase.s) # <<>>}}

StartupStep == lastReq = NoOp /\ lastResp' # NoOp /\ lastResp'.op = "startup"

C9_BootstrapOnlyOnCreation ==
    [][StartupStep =>
        /\ lastResp'.bootstrapRan => ~seedIndexExists
        /\ seedIndexExists => seeds' = seeds
        /\ (lastResp'.bootstrapRan /\ DefaultIds(lastReq'.file) \subseteq DOMAIN seeds)
           => (DOMAIN seeds' = DOMAIN seeds /\ lastResp'.total_added = 0)]_vars

\* C9's case: a start-up with default seeds to add finds the seed index, with
\* seeds in it, and completes without running the bootstrap.
C9_Witness ==
    /\ lastResp.op = "startup"
    /\ lastReq.seedIndexExisted
    /\ DefaultIds(lastReq.file) # {}
    /\ seeds # EmptyIndex
    /\ lastResp.exc = "none"
    /\ ~lastResp.bootstrapRan

====
